---------------------------- MODULE Spec2Model ----------------------------
(***************************************************************************)
(* Row clustering (RowsManager / MatrixRow) and the Voronoi cell graph     *)
(* (VoronoiTesselation / Cell / CellNeighbor) of the thesis repository.    *)
(*                                                                         *)
(* Numbers.  The program computes in floating point; the model computes    *)
(* the same quantities exactly.  A coordinate of the model is an integer   *)
(* number of grid units, one grid unit being Unit source units.  A         *)
(* perpendicular distance or a cosine is a quadratic irrational n/sqrt(d2) *)
(* and is kept as the record [n, d2]; comparisons are decided exactly by   *)
(* squaring.  A Voronoi coordinate is a rational [n, d] in lowest terms,   *)
(* or one of the records Inf/NaN that numpy yields on a division by zero.  *)
(***************************************************************************)
EXTENDS Integers, Sequences, FiniteSets, TLC

VARIABLES
    vectors,        \* RowsManager.vectors: Seq of [begin, end]
    dots,           \* RowsManager.dots
    cos_list,       \* RowsManager.cos_list
    top_list,       \* RowsManager.top_list
    bottom_list,    \* RowsManager.bottom_list
    rows,           \* RowsManager.rows: Seq of MatrixRow records
    processed,      \* RowsManager.processed
    steps,          \* what the last process() call did, one record per loop iteration
    last,           \* the last call and how it ended: [op, err]
    hist,           \* strokes handed to add_new_hatch since construction / clear()
    nproc,          \* process() calls since construction / clear(): 0, 1, 2 = several
    cleared,        \* clear() was called at least once
    completed,      \* a process() call returned since construction / the last clear()
    heap,           \* every Cell object created so far; a Cell object is its position here
    objects_dict,   \* Cell.objects_dict: [exists, cells], cells[i + 1] the Cell with id i
    voronoi_result, \* VoronoiTesselation.voronoi_vertices and voronoi_result.ridge_dict
    ntess           \* VoronoiTesselation.process() calls so far

vars == <<vectors, dots, cos_list, top_list, bottom_list, rows, processed,
          steps, last, hist, nproc, cleared, completed,
          heap, objects_dict, voronoi_result, ntess>>

\* the Cell registry and the tessellation
cellVars == <<heap, objects_dict, voronoi_result, ntess>>

---------------------------------------------------------------------------
(* Small arithmetic helpers *)

Abs(x) == IF x < 0 THEN -x ELSE x

Min(a, b) == IF a <= b THEN a ELSE b

Max(a, b) == IF a >= b THEN a ELSE b

Last(s) == s[Len(s)]

Sgn(x) == IF x > 0 THEN 1 ELSE IF x < 0 THEN -1 ELSE 0

RECURSIVE CmpSqrt(_, _, _)
\* sign of p*sqrt(l2) - q for integers p > 0, q > 0, l2 > 0, decided exactly by
\* the continued-fraction expansion of q/p against sqrt(l2) (no large squares)
CmpSqrt(p, q, l2) ==
    LET f == q \div p
        rem == q % p
    IN  IF f > 46340 \/ f * f > l2 THEN -1   \* 46340^2 < 2^31
        ELSE IF f * f = l2 THEN (IF rem = 0 THEN 0 ELSE -1)
        ELSE IF (f + 1) * (f + 1) <= l2 THEN 1
        ELSE IF rem = 0 THEN 1
        ELSE LET b == p * (l2 - f * f) - rem * f
             IN  \* sign of -rem*sqrt(l2) + b
                 IF b <= 0 THEN -1 ELSE -CmpSqrt(rem, b, l2)

\* sign of a*sqrt(l2) + b  (l2 >= 0), decided exactly
SgnSqrt(a, b, l2) ==
    IF a = 0 \/ l2 = 0 THEN Sgn(b)
    ELSE IF b = 0 THEN Sgn(a)
    ELSE IF Sgn(a) = Sgn(b) THEN Sgn(a)
    ELSE Sgn(a) * CmpSqrt(Abs(a), Abs(b), l2)

---------------------------------------------------------------------------
(* lib: Dot, Vector and the geometry kernel *)

\* one grid unit of the model is Unit source units
Unit == 10

\* Python's None for an Optional[Dot]
None == <<>>

Vector(b, e) == [begin |-> b, end |-> e]

LenSq(v) == (v.end[1] - v.begin[1]) * (v.end[1] - v.begin[1])
            + (v.end[2] - v.begin[2]) * (v.end[2] - v.begin[2])

\* a value n / sqrt(d2); zero has one representation
Irr(n, d2) == IF n = 0 THEN [n |-> 0, d2 |-> 1] ELSE [n |-> n, d2 |-> d2]

Zero == Irr(0, 1)

\* x < y for non-negative x = x.n/sqrt(x.d2), y = y.n/sqrt(y.d2)
DistLt(x, y) == x.n * x.n * y.d2 < y.n * y.n * x.d2

\* get_angle_between_vectors: cosine of the angle, dot product over magnitudes;
\* a zero-length vector is a domain error (AngleDefined is false)
AngleDefined(v, u) == LenSq(v) # 0 /\ LenSq(u) # 0

get_angle_between_vectors(v, u) ==
    Irr((v.end[1] - v.begin[1]) * (u.end[1] - u.begin[1])
        + (v.end[2] - v.begin[2]) * (u.end[2] - u.begin[2]),
        LenSq(v) * LenSq(u))

\* get_dist_to_straight: perpendicular distance of dot to the line through a, b;
\* undefined (an error) for dot = None or a = b
DistDefined(dot, a, b) == dot # None /\ a # b

get_dist_to_straight(dot, a, b) ==
    Irr(Abs((b[2] - a[2]) * dot[1] - (b[1] - a[1]) * dot[2]
            + b[1] * a[2] - b[2] * a[1]),
        LenSq(Vector(a, b)))

\* config.NEW_ROW_ANGLE as the rational NEW_ROW_ANGLE_NUM / NEW_ROW_ANGLE_DEN
NEW_ROW_ANGLE_NUM == 0

NEW_ROW_ANGLE_DEN == 1

\* cos <= config.NEW_ROW_ANGLE, i.e. c.n * DEN <= NUM * sqrt(c.d2)
CosLeqNewRowAngle(c) ==
    SgnSqrt(NEW_ROW_ANGLE_NUM, -(c.n * NEW_ROW_ANGLE_DEN), c.d2) >= 0

\* get_triangle_square: absolute area by the shoelace formula.  A point of the
\* band has doubled coordinates (x, yi + yq/L), L = sqrt(l2); the result is
\* 8 * area as the pair [i, q] standing for i + q/L >= 0.
Pt(x, yi, yq) == [x |-> x, yi |-> yi, yq |-> yq]

AbsIQ(i, q, sg) == [i |-> sg * i, q |-> sg * q]

ShoelaceI(a, b, c) == a.x * (b.yi - c.yi) + b.x * (c.yi - a.yi) + c.x * (a.yi - b.yi)

ShoelaceQ(a, b, c) == a.x * (b.yq - c.yq) + b.x * (c.yq - a.yq) + c.x * (a.yq - b.yq)

get_triangle_square(a, b, c, l2) ==
    AbsIQ(ShoelaceI(a, b, c), ShoelaceQ(a, b, c),
          SgnSqrt(ShoelaceI(a, b, c), ShoelaceQ(a, b, c), l2))

---------------------------------------------------------------------------
(* MatrixRow *)

\* MatrixRow(index): the dataclass defaults and __post_init__
MatrixRow(index) ==
    [index |-> index, vectors_list |-> <<>>, top |-> Zero, bottom |-> Zero,
     top_dot |-> None, bottom_dot |-> None, is_vector_extended |-> FALSE,
     voronoi_cells |-> <<>>]

final_vector(row) == Vector(row.vectors_list[1].begin, Last(row.vectors_list).end)

\* abs(s1 - s2) < 0.001 as 1 / TOLERANCE_DEN
TOLERANCE_DEN == 1000

\* x = [x1, x2, x3, x4] of is_dot_inside_row, B = bottom.n, T = top.n
BandCorners(fv, B, T) ==
    << Pt(2 * fv.begin[1], 2 * fv.begin[2], 2 * B),
       Pt(2 * fv.end[1], 2 * fv.end[2], 2 * B),
       Pt(2 * fv.end[1], 2 * fv.end[2], -(2 * T)),
       Pt(2 * fv.begin[1], 2 * fv.begin[2], -(2 * T)) >>

\* middle = (x1[0] + x2[0]) / 2, (x2[1] + x3[1]) / 2
BandMiddle(fv, B, T) == Pt(fv.begin[1] + fv.end[1], 2 * fv.end[2], B - T)

Sum4(a, b, c, d) == [i |-> a.i + b.i + c.i + d.i, q |-> a.q + b.q + c.q + d.q]

\* the loop "for i in range(4)": the four triangles of the point p
SumAreas(x, p, l2) ==
    Sum4(get_triangle_square(x[1], x[2], p, l2), get_triangle_square(x[2], x[3], p, l2),
         get_triangle_square(x[3], x[4], p, l2), get_triangle_square(x[4], x[1], p, l2))

\* abs(s1 - s2) < 0.001: s = (s.i + s.q/L) / 8 grid units squared, so
\* |wi + wq/L| * Unit^2 / 8 < 1 / TOLERANCE_DEN with w = s1 - s2
InsideTolerance(s1, s2, l2, k) ==
    /\ SgnSqrt(k * (s1.i - s2.i) - 1, k * (s1.q - s2.q), l2) < 0
    /\ SgnSqrt(k * (s1.i - s2.i) + 1, k * (s1.q - s2.q), l2) > 0

\* a zero-length final vector has top = bottom = 0 and every q is 0
BandL2(fv) == IF LenSq(fv) = 0 THEN 1 ELSE LenSq(fv)

\* is_dot_inside_row.  top and bottom were measured against the row's current
\* final vector (d2 = its squared length) or are zero.
InsideBand(fv, B, T, dot) ==
    InsideTolerance(SumAreas(BandCorners(fv, B, T), Pt(2 * dot[1], 2 * dot[2], 0), BandL2(fv)),
                    SumAreas(BandCorners(fv, B, T), BandMiddle(fv, B, T), BandL2(fv)),
                    BandL2(fv), (TOLERANCE_DEN * Unit * Unit) \div 8)

is_dot_inside_row(row, dot) == InsideBand(final_vector(row), row.bottom.n, row.top.n, dot)

Ok(row) == [row |-> row, ok |-> TRUE]

Raised(row) == [row |-> row, ok |-> FALSE]

\* the body of _update_top once vectors_list is known to be non-empty
UpdateTopOn(row, new_top, fv) ==
    IF ~DistDefined(new_top, fv.begin, fv.end) THEN Raised(row)
    ELSE IF DistLt(row.top, get_dist_to_straight(new_top, fv.begin, fv.end))
    THEN Ok([row EXCEPT !.top_dot = new_top,
                        !.top = get_dist_to_straight(new_top, fv.begin, fv.end)])
    ELSE IF ~DistDefined(row.top_dot, fv.begin, fv.end) THEN Raised(row)
    ELSE Ok([row EXCEPT !.top = get_dist_to_straight(row.top_dot, fv.begin, fv.end)])

\* _update_top: [row, ok]; ok = FALSE when get_dist_to_straight raises
update_top(row, new_top) ==
    IF row.vectors_list = <<>> THEN Ok(row) ELSE UpdateTopOn(row, new_top, final_vector(row))

UpdateBottomOn(row, new_bottom, fv) ==
    IF ~DistDefined(new_bottom, fv.begin, fv.end) THEN Raised(row)
    ELSE IF DistLt(row.bottom, get_dist_to_straight(new_bottom, fv.begin, fv.end))
    THEN Ok([row EXCEPT !.bottom_dot = new_bottom,
                        !.bottom = get_dist_to_straight(new_bottom, fv.begin, fv.end)])
    ELSE IF ~DistDefined(row.bottom_dot, fv.begin, fv.end) THEN Raised(row)
    ELSE Ok([row EXCEPT !.bottom = get_dist_to_straight(row.bottom_dot, fv.begin, fv.end)])

\* _update_bottom
update_bottom(row, new_bottom) ==
    IF row.vectors_list = <<>> THEN Ok(row)
    ELSE UpdateBottomOn(row, new_bottom, final_vector(row))

\* _update_bottom after _update_top, skipped when _update_top raised
BottomAfterTop(t, bottom) == IF t.ok THEN update_bottom(t.row, bottom) ELSE t

update_top_bottom(row, top, bottom) == BottomAfterTop(update_top(row, top), bottom)

\* add_hatch without the in-place extension of the seed vector
add_hatch_appending(row, vector, top, bottom) ==
    update_top_bottom([row EXCEPT !.vectors_list = Append(@, vector)], top, bottom)

\* add_hatch: extend the seed vector in place once, append afterwards
add_hatch(row, vector, top, bottom) ==
    update_top_bottom(IF Len(row.vectors_list) = 1 /\ ~row.is_vector_extended
                      THEN [row EXCEPT !.vectors_list[1].end = vector.end,
                                       !.is_vector_extended = TRUE]
                      ELSE [row EXCEPT !.vectors_list = Append(@, vector)],
                      top, bottom)

---------------------------------------------------------------------------
(* RowsManager *)

\* is_hatch_horizontal: abs(top - bottom) <= 20 source units
HORIZONTAL_MAX == 20

is_hatch_horizontal(top, bottom) == Abs(top - bottom) * Unit <= HORIZONTAL_MAX

\* the middle of the hatch; the strokes of the model have even coordinate sums
middle_dot(h) == <<(h.left[1] + h.right[1]) \div 2, (h.top[2] + h.bottom[2]) \div 2>>

\* Vector((0, 0), (1, 0))
XAxis == Vector(<<0, 0>>, <<1, 0>>)

NoErr == "none"

\* the lists add_new_hatch fills, as one record
Lists(vs, ds, cl, tl, bl) ==
    [vectors |-> vs, dots |-> ds, cos_list |-> cl, top_list |-> tl, bottom_list |-> bl]

\* RowsManager.__init__
NewLists == Lists(<<>>, <<>>, <<>>, <<>>, <<>>)

\* add_new_hatch once middle_dot md is known: [m, err].  A stroke whose middle
\* dot is the previous one makes a zero-length vector: get_angle_between_vectors
\* raises after dots and vectors were appended.
AddHatchAt(m, h, md, ds) ==
    IF Len(m.vectors) = 0
    THEN [m |-> Lists(Append(m.vectors, Vector(md, md)), ds, m.cos_list,
                      Append(m.top_list, h.top), Append(m.bottom_list, h.bottom)),
          err |-> NoErr]
    ELSE IF AngleDefined(Vector(Last(m.vectors).end, md), XAxis)
    THEN [m |-> Lists(Append(m.vectors, Vector(Last(m.vectors).end, md)), ds,
                      Append(m.cos_list,
                             get_angle_between_vectors(Vector(Last(m.vectors).end, md), XAxis)),
                      Append(m.top_list, h.top), Append(m.bottom_list, h.bottom)),
          err |-> NoErr]
    ELSE [m |-> Lists(Append(m.vectors, Vector(Last(m.vectors).end, md)), ds,
                      m.cos_list, m.top_list, m.bottom_list),
          err |-> "ZeroDivisionError"]

\* add_new_hatch(left, right, top, bottom) on the lists m
add_new_hatch(m, h) ==
    AddHatchAt(m, h, middle_dot(h),
               IF ~is_hatch_horizontal(h.top[2], h.bottom[2])
               THEN Append(m.dots, middle_dot(h)) ELSE m.dots)

AddNewHatchDone(r, h) ==
    /\ vectors' = r.m.vectors
    /\ dots' = r.m.dots
    /\ cos_list' = r.m.cos_list
    /\ top_list' = r.m.top_list
    /\ bottom_list' = r.m.bottom_list
    /\ last' = [op |-> "add_new_hatch", err |-> r.err]
    /\ hist' = Append(hist, h)
    /\ UNCHANGED <<rows, processed, steps, nproc, cleared, completed, cellVars>>

AddNewHatchOf(h) ==
    AddNewHatchDone(add_new_hatch(Lists(vectors, dots, cos_list, top_list, bottom_list), h), h)

FirstOf(hit) == IF hit = {} THEN 0 ELSE CHOOSE k \in hit : \A j \in hit : k <= j

\* a row search that looks at the current row only
FoundRowCurrentOnly(rs, dot) ==
    IF /\ Last(rs).top.n # 0
       /\ Last(rs).bottom.n # 0
       /\ is_dot_inside_row(Last(rs), dot)
    THEN Len(rs) ELSE 0

\* the row search of _process_hatch_not_current_row: the first row, in order,
\* with row.top and row.bottom and row.is_dot_inside_row(vector.end); 0 if none
FoundRow(rs, dot) ==
    FirstOf({k \in 1..Len(rs) : /\ rs[k].top.n # 0
                                /\ rs[k].bottom.n # 0
                                /\ is_dot_inside_row(rs[k], dot)})

SeedRow(row_id, dot) == [MatrixRow(row_id) EXCEPT !.vectors_list = <<Vector(dot, dot)>>]

\* the rest of _process_hatch_not_current_row; found is the row search's result,
\* u the previous row's _update_top/_update_bottom (made only when found = 0)
NotCurrentRow(rs, row_id, vector, found, u) ==
    IF found # 0
    THEN [rows |-> rs, added |-> TRUE, row_id |-> row_id, ok |-> TRUE, found |-> found]
    ELSE IF u.ok
    THEN [rows |-> Append([rs EXCEPT ![Len(rs)] = u.row], SeedRow(row_id + 1, vector.end)),
          added |-> FALSE, row_id |-> row_id + 1, ok |-> TRUE, found |-> 0]
    ELSE [rows |-> [rs EXCEPT ![Len(rs)] = u.row], added |-> FALSE,
          row_id |-> row_id + 1, ok |-> FALSE, found |-> 0]

\* _process_hatch_not_current_row: [rows, added, row_id, ok, found]
process_hatch_not_current_row(rs, row_id, vector, top, bottom) ==
    NotCurrentRow(rs, row_id, vector, FoundRow(rs, vector.end),
                  update_top_bottom(Last(rs), top, bottom))

\* number of iterations of zip(cos_list, vectors[1:], top_list, bottom_list)
ZipLen(vs, cl, tl, bl) == Min(Min(Len(cl), Len(vs) - 1), Min(Len(tl), Len(bl)))

LogEntry(i, kind, vector, found, rs) ==
    [i |-> i, kind |-> kind, vector |-> vector, found |-> found, rows |-> rs]

\* the lookahead branch: "continue" with both flags set
SkipStep(st, i) ==
    [st EXCEPT !.added = TRUE, !.prev_horizontal = TRUE,
               !.log = Append(@, LogEntry(i, "skip", st.vs[i + 2], 0, st.rows))]

\* the branch cos <= NEW_ROW_ANGLE; v is the vector after vector.begin was set,
\* a the result of add_hatch on rows[-1].  rows[0].vectors_list[0] is the object
\* vectors[0], so extending row 0's seed vector changes vectors[0] too.
ContinueWith(st, i, v, a) ==
    [st EXCEPT !.rows = [@ EXCEPT ![Len(st.rows)] = a.row],
               !.vs = IF Len(st.rows) = 1
                      THEN [@ EXCEPT ![i + 2] = v, ![1] = a.row.vectors_list[1]]
                      ELSE [@ EXCEPT ![i + 2] = v],
               !.added = FALSE, !.prev_horizontal = FALSE, !.ok = a.ok,
               !.log = Append(@, LogEntry(i, "continue", v, 0,
                                          [st.rows EXCEPT ![Len(st.rows)] = a.row]))]

ContinueStep(st, i, v, top, bottom) ==
    ContinueWith(st, i, v, add_hatch(Last(st.rows), v, top, bottom))

\* the else branch; r is the result of _process_hatch_not_current_row
BreakWith(st, i, vector, r) ==
    [st EXCEPT !.rows = r.rows, !.row_id = r.row_id, !.added = r.added, !.ok = r.ok,
               !.log = Append(@, LogEntry(i, IF r.added THEN "absorb" ELSE "new_row",
                                          vector, r.found, r.rows))]

\* one iteration of the loop of process(), i counted from 0 as in the code.
\* st = [rows, vs, row_id, added, prev_horizontal, ok, log]
ProcessStep(st, i, cl, tl, bl) ==
    IF Len(tl) > i + 1 /\ is_hatch_horizontal(tl[i + 2][2], bl[i + 2][2])
    THEN SkipStep(st, i)
    ELSE IF CosLeqNewRowAngle(cl[i + 1])
    THEN ContinueStep(st, i,
                      IF st.prev_horizontal
                      THEN [st.vs[i + 2] EXCEPT !.begin = final_vector(Last(st.rows)).end]
                      ELSE st.vs[i + 2],
                      tl[i + 1], bl[i + 1])
    ELSE BreakWith(st, i, st.vs[i + 2],
                   process_hatch_not_current_row(st.rows, st.row_id, st.vs[i + 2],
                                                 tl[i + 1], bl[i + 1]))

RECURSIVE ProcessLoop(_, _, _, _, _, _)
ProcessLoop(st, i, n, cl, tl, bl) ==
    IF i >= n \/ ~st.ok THEN st
    ELSE ProcessLoop(ProcessStep(st, i, cl, tl, bl), i + 1, n, cl, tl, bl)

Result(rs, vs, err, log) ==
    [rows |-> rs, vs |-> vs, ok |-> (err = NoErr), err |-> err, log |-> log]

\* after the loop: "updating the last row with top and bottom of the last digit";
\* u is that update (made only when is_added_to_existing_row is false)
FinishWith(st, u) ==
    IF ~st.ok THEN Result(st.rows, st.vs, "GeometryError", st.log)
    ELSE IF st.added THEN Result(st.rows, st.vs, NoErr, st.log)
    ELSE Result([st.rows EXCEPT ![Len(st.rows)] = u.row], st.vs,
                IF u.ok THEN NoErr ELSE "GeometryError",
                Append(st.log, LogEntry(Len(st.log), "final", Last(st.vs), 0,
                                        [st.rows EXCEPT ![Len(st.rows)] = u.row])))

Finish(st, tl, bl) == FinishWith(st, update_top_bottom(Last(st.rows), Last(tl), Last(bl)))

\* process() on a manager holding vs, cl, tl, bl: [rows, vs, ok, err, log]
ProcessOf(vs, cl, tl, bl) ==
    IF Len(vs) = 0
    THEN \* self.rows = [MatrixRow(0)], then self.vectors[0] raises
         Result(<<MatrixRow(0)>>, vs, "IndexError", <<>>)
    ELSE Finish(ProcessLoop([rows |-> <<[MatrixRow(0) EXCEPT !.vectors_list = <<vs[1]>>]>>,
                             vs |-> vs, row_id |-> 0, added |-> FALSE,
                             prev_horizontal |-> FALSE, ok |-> TRUE, log |-> <<>>],
                            0, ZipLen(vs, cl, tl, bl), cl, tl, bl),
                tl, bl)

\* the effect of process() returning or raising with result r
ProcessDone(r) ==
    /\ rows' = r.rows
    /\ vectors' = r.vs
    /\ processed' = (IF r.ok THEN TRUE ELSE processed)
    /\ steps' = r.log
    /\ last' = [op |-> "process", err |-> r.err]
    /\ nproc' = Min(nproc + 1, 2)
    /\ completed' = (r.ok \/ completed)
    /\ UNCHANGED <<dots, cos_list, top_list, bottom_list, hist, cleared, cellVars>>

Process == ProcessDone(ProcessOf(vectors, cos_list, top_list, bottom_list))

\* a clear() that forgets cos_list
ClearKeepingCosList ==
    /\ processed' = FALSE
    /\ rows' = <<>>
    /\ vectors' = <<>>
    /\ top_list' = <<>>
    /\ bottom_list' = <<>>
    /\ dots' = <<>>
    /\ steps' = <<>>
    /\ last' = [op |-> "clear", err |-> NoErr]
    /\ hist' = <<>>
    /\ nproc' = 0
    /\ cleared' = TRUE
    /\ completed' = FALSE
    /\ UNCHANGED <<cos_list, cellVars>>

\* a clear() that leaves processed as it is
ClearKeepingProcessed ==
    /\ rows' = <<>>
    /\ vectors' = <<>>
    /\ top_list' = <<>>
    /\ bottom_list' = <<>>
    /\ cos_list' = <<>>
    /\ dots' = <<>>
    /\ steps' = <<>>
    /\ last' = [op |-> "clear", err |-> NoErr]
    /\ hist' = <<>>
    /\ nproc' = 0
    /\ cleared' = TRUE
    /\ completed' = FALSE
    /\ UNCHANGED <<processed, cellVars>>

\* clear()
Clear ==
    /\ processed' = FALSE
    /\ rows' = <<>>
    /\ vectors' = <<>>
    /\ top_list' = <<>>
    /\ bottom_list' = <<>>
    /\ cos_list' = <<>>
    /\ dots' = <<>>
    /\ steps' = <<>>
    /\ last' = [op |-> "clear", err |-> NoErr]
    /\ hist' = <<>>
    /\ nproc' = 0
    /\ cleared' = TRUE
    /\ completed' = FALSE
    /\ UNCHANGED cellVars

---------------------------------------------------------------------------
(* Voronoi coordinates: rationals [n, d] in lowest terms with d > 0, and the
   values numpy yields on a division by zero: Inf = [1, 0], -Inf = [-1, 0],
   NaN = [0, 0] *)

RECURSIVE GCD(_, _)
GCD(a, b) == IF b = 0 THEN a ELSE GCD(b, a % b)

RatOver(n, d, g) == [n |-> Sgn(d) * (n \div g), d |-> Abs(d) \div g]

\* n / d; d = 0 gives Inf, -Inf or NaN
Rat(n, d) ==
    IF d = 0 THEN [n |-> Sgn(n), d |-> 0]
    ELSE IF n >= 0 THEN RatOver(n, d, GCD(n, Abs(d)))
    ELSE [RatOver(-n, d, GCD(-n, Abs(d))) EXCEPT !.n = -@]

NaN == Rat(0, 0)

IsFinite(a) == a.d # 0

RatAdd(a, b) == Rat(a.n * b.d + b.n * a.d, a.d * b.d)

RatSub(a, b) == Rat(a.n * b.d - b.n * a.d, a.d * b.d)

RatMul(a, b) == Rat(a.n * b.n, a.d * b.d)

RatDiv(a, b) == Rat(a.n * b.d, a.d * b.n)

RatAbs(a) == [a EXCEPT !.n = Abs(@)]

\* a < b; false when either is NaN
RatLt(a, b) ==
    IF a.d # 0 /\ b.d # 0 THEN a.n * b.d < b.n * a.d
    ELSE a # NaN /\ b # NaN /\ a # b /\ (a.n < 0 \/ b.n > 0) /\ ~(a.d = 0 /\ a.n > 0)
         /\ ~(b.d = 0 /\ b.n < 0)

\* Python's max(a, b) and min(a, b): the first argument unless the second wins
RatMax(a, b) == IF RatLt(a, b) THEN b ELSE a

RatMin(a, b) == IF RatLt(b, a) THEN b ELSE a

\* a dot of the manager (grid units) as a Voronoi point (source units)
RatDot(dot) == <<Rat(dot[1] * Unit, 1), Rat(dot[2] * Unit, 1)>>

---------------------------------------------------------------------------
(* CellNeighbor and Cell *)

\* m of "m, c = lstsq(A, y_coords)[0]" for the centers p0, p1: the slope of the
\* line through them; for equal x the system has rank 1 and lstsq returns the
\* minimum-norm solution (m, c) = ybar * (x, 1) / (x^2 + 1)
LstsqSlope(p0, p1) ==
    IF p0[1] # p1[1]
    THEN RatDiv(RatSub(p1[2], p0[2]), RatSub(p1[1], p0[1]))
    ELSE RatDiv(RatMul(p0[1], RatDiv(RatAdd(p0[2], p1[2]), Rat(2, 1))),
                RatAdd(RatMul(p0[1], p0[1]), Rat(1, 1)))

\* y = -(a*x + c) / b with a = -1, b = -m, c = -(a*sx + b*sy); b = -0.0 for m = 0
SynthesizedY(m, s, x) ==
    IF m.n = 0 THEN Rat(-RatSub(x, s[1]).n, 0)
    ELSE RatAdd(s[2], RatDiv(RatSub(s[1], x), m))

\* a synthesized dot_end at the x of the owning cell's center, points[0][0]
SynthesizedEndAtOwner(m, s, p0, p1) == <<p0[1], SynthesizedY(m, s, p0[1])>>

\* the synthesized dot_end: a_ >= 0 exactly when b < 0, i.e. m > 0
SynthesizedEnd(m, s, p0, p1) ==
    IF m.n > 0
    THEN <<RatMax(p0[1], p1[1]), SynthesizedY(m, s, RatMax(p0[1], p1[1]))>>
    ELSE <<RatMin(p0[1], p1[1]), SynthesizedY(m, s, RatMin(p0[1], p1[1]))>>

\* CellNeighbor(cell_id, neighbor_id, dot_start, dot_end) with __post_init__;
\* p0, p1 are the centers of the cells cell_id and neighbor_id in the registry
CellNeighbor(cell_id, neighbor_id, dot_start, dot_end, p0, p1) ==
    [cell_id |-> cell_id, neighbor_id |-> neighbor_id, dot_start |-> dot_start,
     dot_end |-> IF dot_end # None THEN dot_end
                 ELSE SynthesizedEnd(LstsqSlope(p0, p1), dot_start, p0, p1),
     is_finite |-> (dot_end # None)]

\* digit_width = None
NoWidth == [n |-> 0, d |-> -1]

\* Cell(i, center=dot)
Cell(id, center) == [id |-> id, center |-> center, neighbors |-> <<>>, digit_width |-> NoWidth]

\* _get_dist_to_neighbor: line_intersection of the divider with the horizontal
\* line through the center fails for a horizontal divider
DistToNeighborDefined(nb) ==
    ~(/\ IsFinite(nb.dot_start[2])
      /\ IsFinite(nb.dot_end[2])
      /\ nb.dot_start[2] = nb.dot_end[2])

\* x of the point of the line through s, e at height y
XAtHeight(s, e, y) ==
    RatAdd(s[1], RatDiv(RatMul(RatSub(y, s[2]), RatSub(e[1], s[1])), RatSub(e[2], s[2])))

\* _get_dist_to_neighbor for the center c; an Inf or NaN coordinate gives NaN
get_dist_to_neighbor(c, nb) ==
    IF \A k \in 1..2 : IsFinite(nb.dot_start[k]) /\ IsFinite(nb.dot_end[k])
    THEN RatAbs(RatSub(XAtHeight(nb.dot_start, nb.dot_end, c[2]), c[1]))
    ELSE NaN

\* [neighbor for neighbor in self.neighbors if neighbor.neighbor_id in neighbor_ids]
MatchingNeighbors(cell, neighbor_ids) ==
    SelectSeq(cell.neighbors, LAMBDA nb : nb.neighbor_id \in neighbor_ids)

\* the branches of calculate_width on the matching neighbors nbs: [cell, err]
WidthOf(cell, nbs) ==
    IF Len(nbs) \notin {1, 2}
    THEN [cell |-> cell, err |-> "AttributeError"]
    ELSE IF \E k \in 1..Len(nbs) : ~DistToNeighborDefined(nbs[k])
    THEN [cell |-> cell, err |-> "LineIntersectionError"]
    ELSE IF Len(nbs) = 1
    THEN [cell |-> [cell EXCEPT !.digit_width =
                        get_dist_to_neighbor(RatDot(cell.center), nbs[1])],
          err |-> NoErr]
    ELSE [cell |-> [cell EXCEPT !.digit_width =
                        RatMin(get_dist_to_neighbor(RatDot(cell.center), nbs[1]),
                               get_dist_to_neighbor(RatDot(cell.center), nbs[2]))],
          err |-> NoErr]

\* Cell.calculate_width(neighbor_ids)
calculate_width(cell, neighbor_ids) == WidthOf(cell, MatchingNeighbors(cell, neighbor_ids))

---------------------------------------------------------------------------
(* VoronoiTesselation *)

\* what Voronoi(dots_np) gives: it raises, or it returns vertices and ridge_dict;
\* a ridge is [points |-> <<i, j>>, vertices |-> <<a, b>>], -1 the vertex at infinity
VoronoiRaised == [raised |-> TRUE, vertices |-> <<>>, ridges |-> <<>>]

VoronoiReturned(vertices, ridges) == [raised |-> FALSE, vertices |-> vertices, ridges |-> ridges]

Ridge(i, j, a, b) == [points |-> <<i, j>>, vertices |-> <<a, b>>]

\* voronoi_result = None
NoResult == [vertices |-> <<>>, ridges |-> <<>>]

\* "for i, dot in enumerate(self.dots): Cell(i, center=dot)"
NewCells(d) == [i \in 1..Len(d) |-> Cell(i - 1, d[i])]

\* the two mirrored appends for a ridge between the cells c1 and c2
AppendNeighbors(cs, c1, c2, dot_start, dot_end) ==
    [cs EXCEPT ![c1 + 1].neighbors =
                   Append(@, CellNeighbor(c1, c2, dot_start, dot_end,
                                          RatDot(cs[c1 + 1].center), RatDot(cs[c2 + 1].center))),
               ![c2 + 1].neighbors =
                   Append(@, CellNeighbor(c2, c1, dot_start, dot_end,
                                          RatDot(cs[c2 + 1].center), RatDot(cs[c1 + 1].center)))]

\* the body of the loop over ridge_dict.items()
AddRidge(cs, ridge, vertices) ==
    IF ridge.vertices[1] = -1 \/ ridge.vertices[2] = -1
    THEN AppendNeighbors(cs, ridge.points[1], ridge.points[2],
                         vertices[(IF ridge.vertices[1] = -1 THEN ridge.vertices[2]
                                   ELSE ridge.vertices[1]) + 1],
                         None)
    ELSE AppendNeighbors(cs, ridge.points[1], ridge.points[2],
                         vertices[ridge.vertices[1] + 1], vertices[ridge.vertices[2] + 1])

RECURSIVE AddRidges(_, _, _)
AddRidges(cs, vd, k) ==
    IF k > Len(vd.ridges) THEN cs
    ELSE AddRidges(AddRidge(cs, vd.ridges[k], vd.vertices), vd, k + 1)

\* VoronoiTesselation(d).process() when Voronoi gives vd: the cells of the new
\* registry, cell id i at position i + 1
tessellation_process(d, vd) ==
    IF vd.raised THEN NewCells(d) ELSE AddRidges(NewCells(d), vd, 1)

---------------------------------------------------------------------------
(* RowsManager.add_voronoi_cells; a Cell object is its position in heap *)

\* Cell.objects_dict[cell_id_center_dict[dot]]: the cell with the largest id
\* among the registry's cells centered at dot; 0 for a KeyError
CellAt(hp, reg, dot) ==
    IF \A i \in 1..Len(reg) : hp[reg[i]].center # dot THEN 0
    ELSE reg[CHOOSE i \in 1..Len(reg) :
                /\ hp[reg[i]].center = dot
                /\ \A j \in (i + 1)..Len(reg) : hp[reg[j]].center # dot]

\* the dot looked up at position j of row: vector.begin of the j-th vector, and
\* vectors_list[-1].end after the last vector
LinkDot(row, j) ==
    IF j <= Len(row.vectors_list) THEN row.vectors_list[j].begin
    ELSE Last(row.vectors_list).end

\* the first loop of add_voronoi_cells from row r, position j on: [rows, ok]
RECURSIVE LinkRows(_, _, _, _, _)
LinkRows(rs, hp, reg, r, j) ==
    IF r > Len(rs) THEN [rows |-> rs, ok |-> TRUE]
    ELSE IF j > Len(rs[r].vectors_list) + 1 THEN LinkRows(rs, hp, reg, r + 1, 1)
    ELSE IF CellAt(hp, reg, LinkDot(rs[r], j)) = 0 THEN [rows |-> rs, ok |-> FALSE]
    ELSE LinkRows([rs EXCEPT ![r].voronoi_cells =
                                  Append(@, CellAt(hp, reg, LinkDot(rs[r], j)))],
                  hp, reg, r, j + 1)

\* the ids of neighbor_cells[i - 1] for a row with the cells vc
NeighborIds(hp, vc, i) ==
    IF i = 1 THEN {hp[vc[2]].id}
    ELSE IF i = Len(vc) THEN {hp[vc[Len(vc) - 1]].id}
    ELSE {hp[vc[i - 1]].id, hp[vc[i + 1]].id}

\* the second loop of add_voronoi_cells from row r, cell i on: [heap, err]
RECURSIVE WidthRows(_, _, _, _)
WidthRows(rs, hp, r, i) ==
    IF r > Len(rs) THEN [heap |-> hp, err |-> NoErr]
    ELSE IF i > Len(rs[r].voronoi_cells) THEN WidthRows(rs, hp, r + 1, 1)
    ELSE IF calculate_width(hp[rs[r].voronoi_cells[i]],
                            NeighborIds(hp, rs[r].voronoi_cells, i)).err # NoErr
    THEN [heap |-> hp,
          err |-> calculate_width(hp[rs[r].voronoi_cells[i]],
                                  NeighborIds(hp, rs[r].voronoi_cells, i)).err]
    ELSE WidthRows(rs,
                   [hp EXCEPT ![rs[r].voronoi_cells[i]] =
                       calculate_width(@, NeighborIds(hp, rs[r].voronoi_cells, i)).cell],
                   r, i + 1)

LinkResult(rs, w) == [rows |-> rs, heap |-> w.heap, err |-> w.err]

\* add_voronoi_cells after the first loop gave l
AfterLink(l, hp) ==
    IF ~l.ok THEN [rows |-> l.rows, heap |-> hp, err |-> "KeyError"]
    ELSE LinkResult(l.rows, WidthRows(l.rows, hp, 1, 1))

\* add_voronoi_cells(): [rows, heap, err]; od is Cell.objects_dict
add_voronoi_cells(rs, hp, od, proc) ==
    IF ~proc THEN [rows |-> rs, heap |-> hp, err |-> "AssertionError"]
    ELSE IF ~od.exists THEN [rows |-> rs, heap |-> hp, err |-> "AttributeError"]
    ELSE AfterLink(LinkRows(rs, hp, od.cells, 1, 1), hp)

---------------------------------------------------------------------------
(* The strokes handed to add_new_hatch *)

\* a stroke around (cx, cy): half-width 1, half-height h, corners slanted by s
Stroke(cx, cy, h, s) ==
    [left |-> <<cx - 1, cy>>, right |-> <<cx + 1, cy>>,
     top |-> <<cx + s, cy - h>>, bottom |-> <<cx - s, cy + h>>]

Strokes ==
    { Stroke(6, 2, 2, 0), Stroke(4, 2, 2, 0), Stroke(2, 2, 2, 0), Stroke(3, 6, 2, 0),
      Stroke(4, 2, 1, 0) }

MaxHatches == 5

\* a page whose first row bends: its strokes are slanted, so that a corner dot
\* lies on the row's final vector
SlantedDocument ==
    << Stroke(2, 1, 2, 1), Stroke(2, 4, 2, 0), Stroke(1, 3, 2, 1), Stroke(3, 7, 2, 0),
       Stroke(1, 7, 2, 0), Stroke(2, 2, 2, 0), Stroke(1, 2, 2, 0) >>

AddNewHatch ==
    \/ /\ Len(hist) < MaxHatches
       /\ \E h \in Strokes : AddNewHatchOf(h)
    \/ /\ Len(hist) < Len(SlantedDocument)
       /\ hist = SubSeq(SlantedDocument, 1, Len(hist))
       /\ AddNewHatchOf(SlantedDocument[Len(hist) + 1])

Init ==
    /\ vectors = <<>>
    /\ dots = <<>>
    /\ cos_list = <<>>
    /\ top_list = <<>>
    /\ bottom_list = <<>>
    /\ rows = <<>>
    /\ processed = FALSE
    /\ steps = <<>>
    /\ last = [op |-> "init", err |-> NoErr]
    /\ hist = <<>>
    /\ nproc = 0
    /\ cleared = FALSE
    /\ completed = FALSE
    /\ heap = <<>>
    /\ objects_dict = [exists |-> FALSE, cells |-> <<>>]
    /\ voronoi_result = NoResult
    /\ ntess = 0

\* VoronoiTesselation(d).process() when Voronoi gives vd.  The new cells are new
\* objects; the cells of the previous registry stay where rows refer to them.
TessellateWith(d, vd) ==
    /\ heap' = heap \o tessellation_process(d, vd)
    /\ objects_dict' = [exists |-> TRUE, cells |-> [i \in 1..Len(d) |-> Len(heap) + i]]
    /\ voronoi_result' = [vertices |-> vd.vertices, ridges |-> vd.ridges]
    /\ ntess' = ntess + 1
    /\ last' = [op |-> "tessellate", err |-> IF vd.raised THEN "QhullError" ELSE NoErr]
    /\ UNCHANGED <<vectors, dots, cos_list, top_list, bottom_list, rows, processed,
                   steps, hist, nproc, cleared, completed>>

AddVoronoiCellsDone(r) ==
    /\ rows' = r.rows
    /\ heap' = r.heap
    /\ last' = [op |-> "add_voronoi_cells", err |-> r.err]
    /\ UNCHANGED <<vectors, dots, cos_list, top_list, bottom_list, processed, steps,
                   hist, nproc, cleared, completed, objects_dict, voronoi_result, ntess>>

MaxLinks == 2

\* add_voronoi_cells(), at most MaxLinks times on the same rows
AddVoronoiCells ==
    /\ \A r \in 1..Len(rows) :
          Len(rows[r].voronoi_cells) < MaxLinks * (Len(rows[r].vectors_list) + 1)
    /\ AddVoronoiCellsDone(add_voronoi_cells(rows, heap, objects_dict, processed))

---------------------------------------------------------------------------
(* The whole program on a few documents *)

StrokeA == Stroke(6, 2, 2, 0)

StrokeB == Stroke(2, 2, 2, 0)

StrokeC == Stroke(5, 6, 2, 0)

StrokeD == Stroke(1, 6, 2, 0)

StrokeH == Stroke(8, 2, 1, 0)

\* two rows of two digits; a document that starts with a connector; a row of
\* one digit followed by a connector
Documents ==
    { <<StrokeA, StrokeB, StrokeC, StrokeD>>,
      <<StrokeH, StrokeA, StrokeB>>,
      <<StrokeA, StrokeB, StrokeC, StrokeH>> }

\* add_new_hatch with the next stroke of one of the documents
AddDocumentHatch ==
    \E doc \in Documents :
        /\ Len(hist) < Len(doc)
        /\ SubSeq(doc, 1, Len(hist)) = hist
        /\ AddNewHatchOf(doc[Len(hist) + 1])

\* the Voronoi diagram of the middle dots of A, B, C: one vertex, the
\* circumcenter (40, 36.25), and three unbounded ridges
Diagram3 ==
    VoronoiReturned(<< <<Rat(40, 1), Rat(145, 4)>> >>,
                    << Ridge(0, 1, -1, 0), Ridge(0, 2, -1, 0), Ridge(1, 2, -1, 0) >>)

\* the Voronoi diagram of the middle dots of A, B, C, D: the circumcenters of
\* ABC and BCD, the finite ridge between B and C, four unbounded ridges
Diagram4 ==
    VoronoiReturned(<< <<Rat(40, 1), Rat(145, 4)>>, <<Rat(30, 1), Rat(175, 4)>> >>,
                    << Ridge(0, 1, -1, 0), Ridge(2, 0, -1, 0), Ridge(1, 2, 0, 1),
                       Ridge(3, 1, -1, 1), Ridge(2, 3, -1, 1) >>)

\* what Voronoi may give for the dots d: it raises (always for fewer than three
\* dots), or returns the diagram
VoronoiResults(d) ==
    {VoronoiRaised}
        \cup (IF Len(d) = 3 THEN {Diagram3} ELSE IF Len(d) = 4 THEN {Diagram4} ELSE {})

MaxTess == 2

\* VoronoiTesselation(self.dots).process() over the manager's dots
Tessellate ==
    /\ ntess < MaxTess
    /\ \E vd \in VoronoiResults(dots) : TessellateWith(dots, vd)

Next ==
    \/ AddDocumentHatch
    \/ Process
    \/ Clear
    \/ Tessellate
    \/ AddVoronoiCells

Spec == Init /\ [][Next]_vars

---------------------------------------------------------------------------
(* Row clustering alone, on every sequence of strokes of the catalog *)

NextRows ==
    \/ AddNewHatch
    \/ Process
    \/ Clear

SpecRows == Init /\ [][NextRows]_vars

---------------------------------------------------------------------------
(* The tessellation alone, on every diagram of a family.  A diagram of the
   family has, for each pair of dots, no ridge, an unbounded ridge or a finite
   ridge, the ridge's vertices lying on the perpendicular bisector of the pair. *)

VoronoiDots == {<<6, 2>>, <<2, 2>>, <<5, 6>>, <<6, 6>>}

DotLists ==
    {d \in VoronoiDots \X VoronoiDots \X VoronoiDots :
        d[1] # d[2] /\ d[1] # d[3] /\ d[2] # d[3]}

\* the point of the bisector of p, q at t times the rotated vector p -> q
BisectorPoint(p, q, t) ==
    << Rat(Unit * (p[1] + q[1] - 2 * t * (q[2] - p[2])), 2),
       Rat(Unit * (p[2] + q[2] + 2 * t * (q[1] - p[1])), 2) >>

\* the pairs of cell ids, in the order of their ridges
PairOf(k) == << <<0, 1>>, <<0, 2>>, <<1, 2>> >>[k]

\* two points of each pair's bisector: the vertices 2k - 2 and 2k - 1 for pair k
BisectorVertices(d) ==
    [v \in 1..6 |-> BisectorPoint(d[PairOf((v + 1) \div 2)[1] + 1],
                                  d[PairOf((v + 1) \div 2)[2] + 1], (v + 1) % 2)]

\* what ridge_dict may hold for pair k: the key in either order; the value an
\* unbounded ridge from the first vertex or a finite one, in either order
RidgeChoices(k) ==
    { Ridge(pt[1], pt[2], vx[1], vx[2]) :
        pt \in {PairOf(k), <<PairOf(k)[2], PairOf(k)[1]>>},
        vx \in {<<-1, 2 * k - 2>>, <<2 * k - 2, -1>>,
                <<2 * k - 2, 2 * k - 1>>, <<2 * k - 1, 2 * k - 2>>} }

RECURSIVE SeqOfSets(_, _)
\* the sequences that take at most one element of each of ss[k..], in order
SeqOfSets(ss, k) ==
    IF k > Len(ss) THEN {<<>>}
    ELSE SeqOfSets(ss, k + 1)
           \cup {<<x>> \o rest : x \in ss[k], rest \in SeqOfSets(ss, k + 1)}

BisectorDiagrams(d) ==
    { VoronoiReturned(BisectorVertices(d), rs) :
        rs \in SeqOfSets(<<RidgeChoices(1), RidgeChoices(2), RidgeChoices(3)>>, 1) }

\* the first tessellation that creates cells
TessellateAny ==
    /\ heap = <<>>
    /\ ntess < MaxTess
    /\ \E d \in DotLists : \E vd \in BisectorDiagrams(d) : TessellateWith(d, vd)

NextVoronoi ==
    \/ TessellateAny
    \/ Tessellate

SpecVoronoi == Init /\ [][NextVoronoi]_vars

---------------------------------------------------------------------------
(* Vocabulary of the properties *)

\* the state right after a process() call that returned
ProcessReturned == last = [op |-> "process", err |-> NoErr]

\* consecutive middle dots distinct: no add_new_hatch call of the sequence failed
NoRepeat(h) == \A k \in 1..(Len(h) - 1) : middle_dot(h[k]) # middle_dot(h[k + 1])

NonHorizontal(s) == ~is_hatch_horizontal(s.top[2], s.bottom[2])

\* the chain dots of a row: the first vector's begin, then every vector's end
ChainDots(row) ==
    [j \in 1..(Len(row.vectors_list) + 1) |->
        IF j = 1 THEN row.vectors_list[1].begin ELSE row.vectors_list[j - 1].end]

Contiguous(vl) == \A j \in 1..(Len(vl) - 1) : vl[j].end = vl[j + 1].begin

\* how often dot d occurs among the chain dots of the rows rs
Occurrences(rs, d) ==
    Cardinality({p \in (1..Len(rs)) \X (1..(MaxHatches + 1)) :
                    /\ p[2] <= Len(rs[p[1]].vectors_list) + 1
                    /\ ChainDots(rs[p[1]])[p[2]] = d})

Collinear(a, b, c) == (b[1] - a[1]) * (c[2] - a[2]) = (b[2] - a[2]) * (c[1] - a[1])

\* the lists a freshly constructed manager holds after ingesting h
RECURSIVE Ingest(_, _, _)
Ingest(m, h, k) == IF k > Len(h) THEN m ELSE Ingest(add_new_hatch(m, h[k]).m, h, k + 1)

FreshProcess(m) == ProcessOf(m.vectors, m.cos_list, m.top_list, m.bottom_list)

---------------------------------------------------------------------------
(* C1 *)

\* C1 (as stated): whenever process() returns for strokes whose consecutive
\* middle dots are distinct, every row's vectors_list is a contiguous chain:
\* vectors_list[i].end = vectors_list[i+1].begin.
C1_RowsContiguous ==
    (ProcessReturned /\ NoRepeat(hist))
        => \A r \in 1..Len(rows) : Contiguous(rows[r].vectors_list)

---------------------------------------------------------------------------
(* C2 *)

\* C2 (as stated): after process() returned, the middle dot of every ingested
\* non-horizontal stroke occurs exactly once among the chain dots of all rows
\* (strokes with pairwise distinct middle dots).
C2_EveryStrokeOnce ==
    (/\ ProcessReturned
     /\ \A j, k \in 1..Len(hist) : j # k => middle_dot(hist[j]) # middle_dot(hist[k]))
        => \A k \in 1..Len(hist) :
              NonHorizontal(hist[k]) => Occurrences(rows, middle_dot(hist[k])) = 1

---------------------------------------------------------------------------
(* C3 *)

\* the first process() call on three non-horizontal strokes with collinear
\* middle dots, both vectors passing the continuation test
ThreeCollinear ==
    /\ last.op = "process"
    /\ nproc = 1
    /\ Len(hist) = 3
    /\ \A k \in 1..3 : NonHorizontal(hist[k])
    /\ Collinear(middle_dot(hist[1]), middle_dot(hist[2]), middle_dot(hist[3]))
    /\ Len(cos_list) = 2
    /\ CosLeqNewRowAngle(cos_list[1])
    /\ CosLeqNewRowAngle(cos_list[2])

---------------------------------------------------------------------------
(* C4 *)

\* the row search's test on one row: a band (top and bottom non-zero) that holds dot
InBand(row, dot) == row.top.n # 0 /\ row.bottom.n # 0 /\ is_dot_inside_row(row, dot)

\* step k of the last process() call handled a vector that fails the continuation
\* test and ends inside the band of a row closed before the step
EndsInClosedBand(k) ==
    /\ steps[k].kind # "final"
    /\ ~CosLeqNewRowAngle(cos_list[steps[k].i + 1])
    /\ \E r \in 1..(Len(steps[k - 1].rows) - 1) :
          InBand(steps[k - 1].rows[r], steps[k].vector.end)

\* rows closed after step j are the same after step k
ClosedRowsKept(j, k) ==
    /\ Len(steps[j].rows) <= Len(steps[k].rows)
    /\ \A r \in 1..(Len(steps[j].rows) - 1) : steps[k].rows[r] = steps[j].rows[r]

\* The frame part of C4, which holds: in every process() call, (1) a vector that
\* fails the continuation test and ends inside the band of an already-closed
\* earlier row whose top and bottom are non-zero creates no new row and leaves
\* every row as it was; (2) once a row is closed (a newer row exists) no later
\* step, nor the end of process(), modifies it.
C4_ClosedRowsFrozen ==
    last.op = "process"
        => /\ \A k \in 2..Len(steps) : EndsInClosedBand(k) => steps[k].rows = steps[k - 1].rows
           /\ \A j, k \in 1..Len(steps) : j < k => ClosedRowsKept(j, k)
           /\ \A k \in 1..Len(steps) :
                 /\ Len(steps[k].rows) <= Len(rows)
                 /\ \A r \in 1..(Len(steps[k].rows) - 1) : rows[r] = steps[k].rows[r]

\* step k handled a vector that fails the continuation test and ends inside a
\* row closed before the step, by is_dot_inside_row alone
EndsInsideClosedRow(k) ==
    /\ steps[k].kind # "final"
    /\ ~CosLeqNewRowAngle(cos_list[steps[k].i + 1])
    /\ \E r \in 1..(Len(steps[k - 1].rows) - 1) :
          is_dot_inside_row(steps[k - 1].rows[r], steps[k].vector.end)

\* C4 (as stated), with the band of a closed row taken as is_dot_inside_row alone:
\* a vector that fails the continuation test and ends inside the band of an
\* already-closed earlier row creates no new row.
C4_AbsorbedWhenInside ==
    last.op = "process"
        => \A k \in 2..Len(steps) :
              EndsInsideClosedRow(k) => Len(steps[k].rows) = Len(steps[k - 1].rows)

C4_Witness ==
    /\ ProcessReturned
    /\ \E k \in 2..Len(steps) :
          /\ EndsInClosedBand(k)
          /\ steps[k].kind = "absorb"
          /\ k < Len(steps)
          /\ steps[k].rows = steps[k - 1].rows

---------------------------------------------------------------------------
(* C5 *)

\* the cell with id a of the registry
RegistryCell(a) == heap[objects_dict.cells[a + 1]]

\* the CellNeighbors of cell a that refer to b
NeighborsTo(a, b) == SelectSeq(RegistryCell(a).neighbors, LAMBDA nb : nb.neighbor_id = b)

\* the ridges of the last diagram between the cells a and b
RidgesOf(a, b) ==
    {k \in 1..Len(voronoi_result.ridges) :
        voronoi_result.ridges[k].points \in {<<a, b>>, <<b, a>>}}

Mirrored(x, y) ==
    /\ x.cell_id = y.neighbor_id
    /\ x.neighbor_id = y.cell_id
    /\ x.dot_start = y.dot_start
    /\ x.dot_end = y.dot_end
    /\ x.is_finite = y.is_finite
    /\ x.dot_end # None
    /\ \A c \in 1..2 : x.dot_end[c] # NaN

\* C5: after VoronoiTesselation.process(), for all cells a, b of the registry:
\* a holds a CellNeighbor to b iff b holds one to a, exactly when the diagram has
\* a ridge between them; the two entries have the same dot_start, dot_end
\* (synthesized or not) and is_finite; is_finite is false exactly when the ridge
\* had the vertex -1; every dot_end is non-null.
C5_AdjacencySymmetric ==
    last.op = "tessellate"
        => \A a, b \in 0..(Len(objects_dict.cells) - 1) :
              /\ Len(NeighborsTo(a, b)) = Cardinality(RidgesOf(a, b))
              /\ Len(NeighborsTo(a, b)) = Len(NeighborsTo(b, a))
              /\ \A k \in 1..Len(NeighborsTo(a, b)) :
                    /\ NeighborsTo(a, b)[k].cell_id = a
                    /\ Mirrored(NeighborsTo(a, b)[k], NeighborsTo(b, a)[k])
                    /\ \A r \in RidgesOf(a, b) :
                          NeighborsTo(a, b)[k].is_finite
                              = (-1 \notin {voronoi_result.ridges[r].vertices[1],
                                            voronoi_result.ridges[r].vertices[2]})

\* a diagram with a finite ridge and unbounded ridges whose centers differ in x
\* and in y, stored with the key in either order
C5_Witness ==
    /\ last = [op |-> "tessellate", err |-> NoErr]
    /\ Len(objects_dict.cells) = 3
    /\ \E a, b \in 0..2 :
          /\ NeighborsTo(a, b) # <<>>
          /\ ~NeighborsTo(a, b)[1].is_finite
          /\ RegistryCell(a).center[1] < RegistryCell(b).center[1]
          /\ RegistryCell(a).center[2] # RegistryCell(b).center[2]
          /\ voronoi_result.ridges[CHOOSE r \in RidgesOf(a, b) : TRUE].points = <<b, a>>
          /\ NeighborsTo(a, b)[1].dot_end = NeighborsTo(b, a)[1].dot_end
    /\ \E a, b \in 0..2 : NeighborsTo(a, b) # <<>> /\ NeighborsTo(a, b)[1].is_finite

---------------------------------------------------------------------------
(* C6 *)

\* C6 (as stated): for every row process() returned, is_dot_inside_row is true
\* for the row's recorded top extreme and for its recorded bottom extreme.
C6_ExtremesInsideBand ==
    ProcessReturned
        => \A r \in 1..Len(rows) :
              /\ rows[r].top_dot # None => is_dot_inside_row(rows[r], rows[r].top_dot)
              /\ rows[r].bottom_dot # None => is_dot_inside_row(rows[r], rows[r].bottom_dot)

---------------------------------------------------------------------------
(* C7 *)

\* C7 (as stated): process() on a manager without strokes fails, and after the
\* failure rows holds no row and processed is false.
C7_EmptyProcessLeavesNoRow ==
    (last.op = "process" /\ vectors = <<>>)
        => /\ last.err # NoErr
           /\ rows = <<>>
           /\ processed = FALSE

---------------------------------------------------------------------------
(* C8 *)

\* the rows are what the first process() call returned for the ingested strokes
RowsAsReturned ==
    /\ nproc = 1
    /\ FreshProcess(Ingest(NewLists, hist, 1)).err = NoErr
    /\ Len(rows) = Len(FreshProcess(Ingest(NewLists, hist, 1)).rows)
    /\ \A r \in 1..Len(rows) :
          [rows[r] EXCEPT !.voronoi_cells = <<>>]
              = FreshProcess(Ingest(NewLists, hist, 1)).rows[r]

\* the registry holds one cell per dot of the manager, in order
TessellatedOverDots ==
    /\ objects_dict.exists
    /\ Len(objects_dict.cells) = Len(dots)
    /\ \A i \in 1..Len(dots) : heap[objects_dict.cells[i]].center = dots[i]

\* voronoi_cells is aligned 1:1 with the chain dots of the row
Aligned(row) ==
    /\ Len(row.voronoi_cells) = Len(row.vectors_list) + 1
    /\ \A i \in 1..Len(row.voronoi_cells) :
          heap[row.voronoi_cells[i]].center = ChainDots(row)[i]

\* C8 (as stated): after process() and a tessellation over the manager's dots,
\* a completed add_voronoi_cells() call, the first or a repeated one, leaves
\* every row with len(voronoi_cells) = len(vectors_list) + 1 and
\* voronoi_cells[i].center equal to the i-th chain dot.
C8_CellsAligned ==
    (/\ last = [op |-> "add_voronoi_cells", err |-> NoErr]
     /\ RowsAsReturned
     /\ TessellatedOverDots)
        => \A r \in 1..Len(rows) : Aligned(rows[r])

---------------------------------------------------------------------------
(* C9 *)

\* C9: every add_voronoi_cells() call made when no process() call has returned
\* since construction or the last clear() fails on the assertion and changes no
\* row and no cell (so no voronoi_cells and no digit_width); a call made after
\* process() returned gets past the assertion.
C9_GuardFollowsProcess ==
    [][last'.op = "add_voronoi_cells"
          => IF completed
             THEN last'.err # "AssertionError"
             ELSE last'.err = "AssertionError" /\ rows' = rows /\ heap' = heap]_vars

\* a call refused after a clear(), on rows a failed process() left behind and
\* with cells in the registry
C9_Witness ==
    /\ last = [op |-> "add_voronoi_cells", err |-> "AssertionError"]
    /\ cleared
    /\ ~completed
    /\ rows # <<>>
    /\ objects_dict.cells # <<>>

---------------------------------------------------------------------------
(* C10 *)

\* C10: right after clear() the manager is in its constructed state (vectors,
\* dots, cos_list, top_list, bottom_list, rows empty, processed false); and the
\* first process() after a clear() leaves exactly the rows, and ends the same
\* way, as process() of a freshly constructed manager that ingested the same
\* strokes.
C10_ClearResets ==
    /\ last.op = "clear"
          => /\ Lists(vectors, dots, cos_list, top_list, bottom_list) = NewLists
             /\ rows = <<>>
             /\ processed = FALSE
    /\ (cleared /\ last.op = "process" /\ nproc = 1)
          => /\ rows = FreshProcess(Ingest(NewLists, hist, 1)).rows
             /\ last.err = FreshProcess(Ingest(NewLists, hist, 1)).err

C10_Witness ==
    /\ cleared
    /\ ProcessReturned
    /\ nproc = 1
    /\ Len(rows) = 2
    /\ rows = FreshProcess(Ingest(NewLists, hist, 1)).rows

---------------------------------------------------------------------------
(* C11 *)

\* every add_new_hatch call since construction or the last clear() returned, so
\* that stroke k is hist[k] and its corner dots are top_list[k], bottom_list[k]
AllIngested == Len(vectors) = Len(hist) /\ Len(top_list) = Len(hist)

\* row `after` has an extreme that row `before` did not have and that is the
\* corner dot t (top) or b (bottom)
TakenFrom(before, after, t, b) ==
    \/ after.top_dot = t /\ before.top_dot # t
    \/ after.bottom_dot = b /\ before.bottom_dot # b

\* step k absorbed its stroke into the row steps[k].found, and the next step
\* made a corner dot of that stroke an extreme of that row
AbsorbedCornersUsed(k) ==
    /\ steps[k].kind = "absorb"
    /\ TakenFrom(steps[k].rows[steps[k].found], steps[k + 1].rows[steps[k].found],
                 top_list[steps[k].i + 2], bottom_list[steps[k].i + 2])

\* C11 (as stated): when a process() pass absorbs a stroke into a row R, neither
\* the absorption step nor the following step of the pass (the next iteration
\* or the final update) makes a corner dot of the absorbed stroke the top or
\* bottom extreme of R.
C11_AbsorbedCornersUnused ==
    (last.op = "process" /\ AllIngested)
        => /\ \A k \in 2..Len(steps) :
                 steps[k].kind = "absorb" => steps[k].rows = steps[k - 1].rows
           /\ \A k \in 1..(Len(steps) - 1) : ~AbsorbedCornersUsed(k)

---------------------------------------------------------------------------
(* C12 *)

\* the first add_voronoi_cells() call on the rows process() returned got past
\* its first loop: every row has one cell per chain dot
LinkedOnce ==
    /\ last.op = "add_voronoi_cells"
    /\ last.err \notin {"AssertionError", "KeyError"}
    /\ RowsAsReturned
    /\ TessellatedOverDots
    /\ \A r \in 1..Len(rows) : Len(rows[r].voronoi_cells) = Len(rows[r].vectors_list) + 1

\* the ids of the cells right before and right after position i of the cells vc
BeforeAndAfter(vc, i) ==
    {heap[vc[j]].id : j \in {i - 1, i + 1} \cap (1..Len(vc))}

\* cells of a row that follow one another and are two different cells are
\* Voronoi neighbours of each other
AdjacentAreNeighbours(vc) ==
    \A i \in 1..(Len(vc) - 1) :
        vc[i] # vc[i + 1]
            => /\ \E k \in 1..Len(heap[vc[i]].neighbors) :
                     heap[vc[i]].neighbors[k].neighbor_id = heap[vc[i + 1]].id
               /\ \E k \in 1..Len(heap[vc[i + 1]].neighbors) :
                     heap[vc[i + 1]].neighbors[k].neighbor_id = heap[vc[i]].id

\* C12 (as stated): for every row process() returned, a row of one stroke
\* included, add_voronoi_cells() hands calculate_width of each cell the ids of
\* the cells right before and after it in voronoi_cells, never the id of the
\* cell itself; and when row-adjacent cells are Voronoi neighbours
\* calculate_width does not raise its AttributeError.
C12_RowAdjacentIds ==
    LinkedOnce
        => /\ \A r \in 1..Len(rows) : \A i \in 1..Len(rows[r].voronoi_cells) :
                 /\ NeighborIds(heap, rows[r].voronoi_cells, i)
                        = BeforeAndAfter(rows[r].voronoi_cells, i)
                 /\ heap[rows[r].voronoi_cells[i]].id
                        \notin NeighborIds(heap, rows[r].voronoi_cells, i)
           /\ (\A r \in 1..Len(rows) : AdjacentAreNeighbours(rows[r].voronoi_cells))
                 => last.err # "AttributeError"

---------------------------------------------------------------------------
(* C13 *)

\* the middle dots of the strokes of h that are not horizontal, in order
DigitDots(h) ==
    [k \in 1..Len(SelectSeq(h, NonHorizontal)) |-> middle_dot(SelectSeq(h, NonHorizontal)[k])]

\* vs chains the middle dots of the strokes h from a zero-length first vector
ChainsStrokes(vs, h) ==
    /\ Len(vs) = Len(h)
    /\ \A i \in 1..Len(vs) :
          /\ vs[i].end = middle_dot(h[i])
          /\ vs[i].begin = (IF i = 1 THEN middle_dot(h[1]) ELSE vs[i - 1].end)

\* C13 (as stated): after the add_new_hatch calls made since construction or
\* the last clear() (hist), dots holds the middle dots of the non-horizontal
\* strokes in arrival order, vectors holds one vector per stroke, chained from
\* a zero-length first vector, top_list and bottom_list hold one dot per stroke
\* and cos_list one cosine per stroke after the first.
C13_IngestInvariant ==
    /\ dots = DigitDots(hist)
    /\ ChainsStrokes(vectors, hist)
    /\ Len(top_list) = Len(hist)
    /\ Len(bottom_list) = Len(hist)
    /\ Len(cos_list) = Max(Len(hist) - 1, 0)

\* C13 for the calls that returned, on a manager process() has not run on
C13_IngestInvariantBeforeProcess ==
    (AllIngested /\ nproc = 0 /\ last.err = NoErr) => C13_IngestInvariant

---------------------------------------------------------------------------
(* C14 *)

\* the stroke at which the vector of step k ends (vectors[i + 1] of iteration i)
StrokeOfStep(k) == hist[steps[k].i + 2]

\* the rows before step k: those the previous step left, and before the first
\* step the row 0 that process() seeds
RowsBeforeStep(k) ==
    IF k = 1
    THEN <<[MatrixRow(0) EXCEPT !.vectors_list = <<steps[1].rows[1].vectors_list[1]>>]>>
    ELSE steps[k - 1].rows

\* step k opened a row
OpenedRow(k) == steps[k].kind = "new_row" /\ Len(steps[k].rows) > Len(RowsBeforeStep(k))

\* what C14 states of the pass whose steps are logged: (1) a vector that ends
\* at a horizontal stroke takes the lookahead-skip branch, which leaves every
\* row as it was (no row gets the vector, no row search, no new row, no
\* top/bottom change); (2) every row opened by the pass is seeded with the
\* zero-length vector at the middle dot of a non-horizontal stroke; (3)
\* rows[k].index = k
HorizontalSkipped ==
    /\ \A k \in 1..Len(steps) :
          (steps[k].kind # "final" /\ ~NonHorizontal(StrokeOfStep(k)))
              => steps[k].kind = "skip" /\ steps[k].rows = RowsBeforeStep(k)
    /\ \A k \in 1..Len(steps) :
          OpenedRow(k)
              => /\ NonHorizontal(StrokeOfStep(k))
                 /\ Last(steps[k].rows).vectors_list
                       = <<Vector(middle_dot(StrokeOfStep(k)), middle_dot(StrokeOfStep(k)))>>
    /\ \A r \in 1..Len(rows) : rows[r].index = r - 1

\* C14 (as stated): in every process() pass, a vector that ends at a horizontal
\* stroke takes the lookahead-skip branch and changes no row; every row with
\* index >= 1 is seeded at the middle dot of a non-horizontal stroke; and
\* rows[k].index = k.
C14_HorizontalNeverSpawns == last.op = "process" => HorizontalSkipped

\* C14 holds of the passes over strokes whose add_new_hatch calls all returned
C14_HoldsWhenAllIngested == (last.op = "process" /\ AllIngested) => HorizontalSkipped

===========================================================================
